---- MODULE Spec2Model ----
(***************************************************************************)
(* A model of src/lib/dates.ts: the Slot value class with its process-wide *)
(* canonical-instance cache, and the Term class with its date projections. *)
(*                                                                         *)
(* A JavaScript Date is modelled by its time value in minutes since the    *)
(* epoch (UTC), or as the Invalid Date (NaN).  The local-time getters and  *)
(* the local-time constructor go through the environment's offset tz.      *)
(***************************************************************************)
EXTENDS Integers, Sequences, FiniteSets, TLC

VARIABLES
    tz,            \* the environment's local-time offset from UTC, in minutes
    focus,         \* the inputs the caller works with in this behaviour
    SLOT_OBJECTS,  \* the cache: slot number -> object id
    heap,          \* every Slot object allocated so far: object id -> its slot field
    term,          \* the Term under test (its string fields, holidays, mondaySchedule)
    dates,         \* the Date objects the Term owns and the local one: name -> Date
    pc,            \* where startDateFor / endDateFor stands
    date,          \* the Date object the local variable `date` refers to
    slotArg,       \* the slot number of the Slot passed to the running call
    halfArg,       \* the secondHalf / firstHalf flag of the running call
    iters,         \* iterations of the running weekday search, counted to MaxSearch
    ret            \* the last call and what it returned

vars == <<tz, focus, SLOT_OBJECTS, heap, term, dates, pc, date, slotArg, halfArg, iters, ret>>

(***************************************************************************)
(* Bounds of the model.                                                    *)
(***************************************************************************)
MaxObjects == 2     \* Slot objects allocated in one behaviour
MaxHolidays == 2    \* length of a Term's holiday list
MaxSearch == 8      \* iterations of a weekday search the model follows

(***************************************************************************)
(* JavaScript values and arithmetic.                                       *)
(***************************************************************************)
Undefined == "undefined"

\* a % b of JavaScript for b > 0: the remainder has the sign of the dividend
JSRem(a, b) == IF a >= 0 THEN a % b ELSE -((-a) % b)

\* arr[k] of a JavaScript array (0-based): undefined outside the array
ArrayGet(arr, k) == IF k \in 0..(Len(arr) - 1) THEN arr[k + 1] ELSE Undefined

\* Array.prototype.indexOf: the first 0-based position, or -1
indexOf(arr, x) ==
    IF \E k \in 1..Len(arr) : arr[k] = x
    THEN (CHOOSE k \in 1..Len(arr) :
              arr[k] = x /\ \A j \in 1..(k - 1) : arr[j] # x) - 1
    ELSE -1

(***************************************************************************)
(* Date.  Day numbers count days since 1970-01-01; months are 0-based as   *)
(* in JavaScript.                                                          *)
(***************************************************************************)
MinutesPerDay == 1440

InvalidDate == [nan |-> TRUE, time |-> 0]

ValidDate(t) == [nan |-> FALSE, time |-> t]

\* MakeDay(year, month, 1): the day number of the first day of a month
DayOfMonthStart(y, m) ==
    LET yy  == IF m + 1 <= 2 THEN y - 1 ELSE y
        era == yy \div 400
        yoe == yy - era * 400
        mp  == IF m + 1 > 2 THEN m - 2 ELSE m + 10
        doy == (153 * mp + 2) \div 5
        doe == yoe * 365 + yoe \div 4 - yoe \div 100 + doy
    IN  era * 146097 + doe - 719468

\* MakeDay(year, month, date): a date past the month's end runs into the next
MakeDay(y, m, d) == DayOfMonthStart(y, m) + d - 1

\* YearFromTime / MonthFromTime / DateFromTime of a day number
CivilFromDay(z) ==
    LET zz  == z + 719468
        era == zz \div 146097
        doe == zz - era * 146097
        yoe == (doe - doe \div 1460 + doe \div 36524 - doe \div 146096) \div 365
        doy == doe - (365 * yoe + yoe \div 4 - yoe \div 100)
        mp  == (5 * doy + 2) \div 153
        d   == doy - (153 * mp + 2) \div 5 + 1
        m   == IF mp < 10 THEN mp + 3 ELSE mp - 9
        y   == yoe + era * 400 + (IF m <= 2 THEN 1 ELSE 0)
    IN  [year |-> y, month |-> m - 1, date |-> d]

\* LocalTime(t): the time value shifted to the local zone
LocalTime(d) == d.time + tz

LocalDay(d) == LocalTime(d) \div MinutesPerDay

getFullYear(d) == CivilFromDay(LocalDay(d)).year
getMonth(d) == CivilFromDay(LocalDay(d)).month
getDate(d) == CivilFromDay(LocalDay(d)).date
getHours(d) == (LocalTime(d) % MinutesPerDay) \div 60
getMinutes(d) == LocalTime(d) % 60

\* Date.prototype.getDay: 0 is Sunday; 1970-01-01 was a Thursday
getDay(d) == (LocalDay(d) + 4) % 7

\* new Date(year, month, date, hours, minutes): local time
NewDate(y, m, d, h, mi) ==
    ValidDate(MakeDay(y, m, d) * MinutesPerDay + h * 60 + mi - tz)

\* Date.prototype.setDate(n): the same local month and time of day, day n
setDate(d, n) ==
    IF d.nan THEN InvalidDate
    ELSE NewDate(getFullYear(d), getMonth(d), n, getHours(d), getMinutes(d))

\* new Date("YYYY-MM-DD"): a date-only ISO string is read as UTC midnight
ParseDateOnly(s) ==
    IF s = <<>> THEN InvalidDate
    ELSE ValidDate(MakeDay(s[1], s[2] - 1, s[3]) * MinutesPerDay)

\* new Date("YYYY-MM-DDT00:00:00"): a date-time string without offset is
\* local time; "T00:00:00" alone (date = "") is not a date
ParseLocalMidnight(s) ==
    IF s = <<>> THEN InvalidDate
    ELSE NewDate(s[1], s[2] - 1, s[3], 0, 0)

(***************************************************************************)
(* The label tables.                                                       *)
(***************************************************************************)
WEEKDAY_STRINGS == <<"Mon", "Tue", "Wed", "Thu", "Fri">>

\* the two pushes of one iteration of a loop of generateTimeslotStrings
HourLabels(i, suffix) ==
    << ToString(i) \o ":00 " \o suffix, ToString(i) \o ":30 " \o suffix >>

RECURSIVE LabelLoop(_, _, _)
\* for (let i = lo; i <= hi; i++) { push `${i}:00 suffix`; push `${i}:30 suffix` }
LabelLoop(lo, hi, suffix) ==
    IF lo > hi THEN <<>>
    ELSE HourLabels(lo, suffix) \o LabelLoop(lo + 1, hi, suffix)

generateTimeslotStrings ==
    LabelLoop(8, 11, "AM") \o <<"12:00 PM", "12:30 PM">>
        \o LabelLoop(1, 9, "PM") \o <<"10:00 PM">>

TIMESLOT_STRINGS == generateTimeslotStrings

(***************************************************************************)
(* Slot: the getters, as functions of the slot field.                      *)
(***************************************************************************)
SlotsPerDay == 30

weekday(slot) == (slot \div SlotsPerDay) + 1

dayString(slot) == ArrayGet(WEEKDAY_STRINGS, weekday(slot) - 1)

timeString(slot) == ArrayGet(TIMESLOT_STRINGS, JSRem(slot, SlotsPerDay))

onDateHour(slot) == (JSRem(slot, SlotsPerDay) \div 2) + 8

onDateMinute(slot) == JSRem(slot, 2) * 30

onDate(slot, d) ==
    IF d.nan THEN InvalidDate
    ELSE NewDate(getFullYear(d), getMonth(d), getDate(d),
                 onDateHour(slot), onDateMinute(slot))

\* fromStartDate taking getDay's Sunday-based number for the weekday
StartDateIndexSundayBased(d) ==
    SlotsPerDay * getDay(d) + 2 * (getHours(d) - 8) + (getMinutes(d) \div 30)

\* the slot number fromStartDate computes from a (valid) date
StartDateIndex(d) ==
    SlotsPerDay * (getDay(d) - 1) + 2 * (getHours(d) - 8) + (getMinutes(d) \div 30)

\* fromDayString with the length of the time table for the slots of a day
DayStringIndexByTable(day, time) ==
    Len(TIMESLOT_STRINGS) * indexOf(WEEKDAY_STRINGS, day)
        + indexOf(TIMESLOT_STRINGS, time)

\* the slot number fromDayString computes from two labels
DayStringIndex(day, time) ==
    SlotsPerDay * indexOf(WEEKDAY_STRINGS, day) + indexOf(TIMESLOT_STRINGS, time)

(***************************************************************************)
(* Inputs.                                                                 *)
(***************************************************************************)
TZOffsets == {-300, 0, 540}

NumSlots == SlotsPerDay * Len(WEEKDAY_STRINGS)

\* slot numbers passed to fromSlotNumber: every valid one, and a day either side
SlotNumbers == (-SlotsPerDay)..(NumSlots + SlotsPerDay)

DayLabels == {WEEKDAY_STRINGS[k] : k \in 1..Len(WEEKDAY_STRINGS)} \cup {"Sat"}

TimeLabels == {TIMESLOT_STRINGS[k] : k \in 1..Len(TIMESLOT_STRINGS)} \cup {"10:30 PM"}

AddSteps == {-SlotsPerDay, -1, 1, SlotsPerDay}

\* dates passed to fromStartDate: the week of 2001-01-01 from the Sunday
\* before it to the Saturday, every hour, four minutes of the hour
StartDateInputs ==
    {NewDate(2001, 0, d, h, mi) : d \in 0..6, h \in 0..23, mi \in {0, 29, 30, 59}}

(***************************************************************************)
(* Slot: the factory methods.  A Slot object is an entry of heap; its      *)
(* identity is its position.  Callers pass the inputs of focus only.       *)
(***************************************************************************)
\* fromSlotNumber without the lookup: every call allocates and registers
CanonicalNoLookup(slot, r) ==
    /\ Len(heap) < MaxObjects
    /\ heap' = Append(heap, slot)
    /\ SLOT_OBJECTS' =
          [i \in DOMAIN SLOT_OBJECTS \cup {slot} |->
              IF i = slot THEN Len(heap) + 1 ELSE SLOT_OBJECTS[i]]
    /\ ret' = [r EXCEPT !.obj = Len(heap) + 1]

\* fromSlotNumber's body: look the slot up, allocate and register on a miss
Canonical(slot, r) ==
    IF slot \in DOMAIN SLOT_OBJECTS
    THEN /\ UNCHANGED <<SLOT_OBJECTS, heap>>
         /\ ret' = [r EXCEPT !.obj = SLOT_OBJECTS[slot]]
    ELSE /\ Len(heap) < MaxObjects
         /\ heap' = Append(heap, slot)
         /\ SLOT_OBJECTS' = SLOT_OBJECTS @@ (slot :> Len(heap) + 1)
         /\ ret' = [r EXCEPT !.obj = Len(heap) + 1]

SlotUnchanged == UNCHANGED <<tz, focus, term, dates, pc, date, slotArg, halfArg, iters>>

fromSlotNumber ==
    \E slot \in focus.slots :
        /\ Canonical(slot, [op |-> "fromSlotNumber", slot |-> slot, obj |-> 0])
        /\ SlotUnchanged

\* new Slot(...): a fresh object, not registered
fromStartDate ==
    /\ Len(heap) < MaxObjects
    /\ \E d \in focus.dates :
        /\ heap' = Append(heap, StartDateIndex(d))
        /\ ret' = [op |-> "fromStartDate", date |-> d, obj |-> Len(heap) + 1]
    /\ UNCHANGED SLOT_OBJECTS
    /\ SlotUnchanged

fromDayString ==
    \E label \in focus.labels :
        /\ Canonical(DayStringIndex(label[1], label[2]),
                     [op |-> "fromDayString", day |-> label[1], time |-> label[2],
                      obj |-> 0])
        /\ SlotUnchanged

add ==
    \E this \in 1..Len(heap), slots \in AddSteps :
        /\ heap[this] + slots \in focus.slots
        /\ Canonical(heap[this] + slots,
                     [op |-> "add", this |-> this, slots |-> slots, obj |-> 0])
        /\ SlotUnchanged

(***************************************************************************)
(* Strings whose characters the code reads are sequences of characters.    *)
(***************************************************************************)
RECURSIVE Str(_)
\* the string a sequence of characters spells
Str(cs) == IF cs = <<>> THEN "" ELSE Head(cs) \o Str(Tail(cs))

Digits == <<"0", "1", "2", "3", "4", "5", "6", "7", "8", "9">>

IsDigit(c) == \E k \in 1..Len(Digits) : Digits[k] = c

RECURSIVE ParseDigits(_, _)
\* parseInt's scan: the value of the longest prefix of digits, acc so far
ParseDigits(cs, acc) ==
    IF cs = <<>> \/ ~IsDigit(Head(cs)) THEN acc
    ELSE ParseDigits(Tail(cs), 10 * acc + indexOf(Digits, Head(cs)))

\* parseInt(s, 10) of a string that starts with a digit
parseInt(cs) == ParseDigits(cs, 0)

(***************************************************************************)
(* Term.                                                                   *)
(***************************************************************************)
SEMESTER_NAMES ==
    [f |-> [catalog |-> "FA", full |-> "fall", fullCaps |-> "Fall"],
     s |-> [catalog |-> "SP", full |-> "spring", fullCaps |-> "Spring"],
     i |-> [catalog |-> "JA", full |-> "iap", fullCaps |-> "IAP"]]

parseUrlName(urlName) ==
    [year |-> SubSeq(urlName, 2, Len(urlName)),
     semester |-> IF Len(urlName) >= 1 THEN urlName[1] ELSE Undefined]

\* const midnight = (date) => new Date(`${date}T00:00:00`)
midnight(s) == ParseLocalMidnight(s)

TermDateFields == {"start", "h1End", "h2Start", "end"}

\* the constructor: the Term's own fields
TermOf(cfg) ==
    [year |-> parseUrlName(cfg.urlName).year,
     semester |-> parseUrlName(cfg.urlName).semester,
     mondaySchedule |->
         IF cfg.mondayScheduleDate = <<>> THEN <<>>
         ELSE << midnight(cfg.mondayScheduleDate[1]) >>,
     holidays |-> [k \in 1..Len(cfg.holidayDates) |-> midnight(cfg.holidayDates[k])]]

\* the constructor: the Date objects it allocates for the four boundaries
DatesOf(cfg) ==
    [f \in TermDateFields \cup {"local"} |->
        CASE f = "start"   -> midnight(cfg.startDate)
          [] f = "h1End"   -> midnight(cfg.h1EndDate)
          [] f = "h2Start" -> midnight(cfg.h2StartDate)
          [] f = "end"     -> midnight(cfg.endDate)
          [] OTHER         -> InvalidDate]

\* what a getter gives: a value, or the TypeError of reading a property of undefined
Value(v) == [threw |-> FALSE, value |-> v]

TypeError == [threw |-> TRUE, value |-> "TypeError"]

fullRealYear(t) == <<"2", "0">> \o t.year

fullSchoolYear(t) ==
    IF t.semester = "f"
    THEN ToString(parseInt(fullRealYear(t)) + 1)
    ELSE Str(fullRealYear(t))

\* SEMESTER_NAMES[this.semester].<field>
SemesterName(t, field) ==
    IF t.semester \in DOMAIN SEMESTER_NAMES
    THEN Value(SEMESTER_NAMES[t.semester][field])
    ELSE TypeError

semesterCatalog(t) == SemesterName(t, "catalog")

semesterFull(t) == SemesterName(t, "full")

semesterFullCaps(t) == SemesterName(t, "fullCaps")

catalogName(t) ==
    IF semesterCatalog(t).threw THEN TypeError
    ELSE Value(fullSchoolYear(t) \o semesterCatalog(t).value)

niceName(t) ==
    IF semesterFullCaps(t).threw THEN TypeError
    ELSE Value(semesterFullCaps(t).value \o " " \o Str(fullRealYear(t)))

\* `${this.semester}${this.year}`: an undefined semester prints as "undefined"
urlName(t) == t.semester \o Str(t.year)

toString(t) == urlName(t)

TermUnchanged ==
    UNCHANGED <<tz, focus, SLOT_OBJECTS, heap, term, dates, pc, date,
                slotArg, halfArg, iters>>

Getter(name, result) ==
    /\ ret' = [op |-> name, result |-> result]
    /\ TermUnchanged

get_fullRealYear == Getter("fullRealYear", Value(Str(fullRealYear(term))))

get_fullSchoolYear == Getter("fullSchoolYear", Value(fullSchoolYear(term)))

get_semesterCatalog == Getter("semesterCatalog", semesterCatalog(term))

get_semesterFull == Getter("semesterFull", semesterFull(term))

get_semesterFullCaps == Getter("semesterFullCaps", semesterFullCaps(term))

get_catalogName == Getter("catalogName", catalogName(term))

get_niceName == Getter("niceName", niceName(term))

get_urlName == Getter("urlName", Value(urlName(term)))

get_toString == Getter("toString", Value(toString(term)))

(***************************************************************************)
(* Term: the date projections.  startDateFor and endDateFor run step by    *)
(* step: the call, each iteration of the while loop, the return.           *)
(***************************************************************************)
\* new Date(d.getTime()): a new object with the same time value
CopyDate(d) == IF d.nan THEN InvalidDate ELSE ValidDate(d.time)

\* date.getDay() !== slot.weekday: NaN differs from every number
WeekdayDiffers(d, slot) == d.nan \/ getDay(d) # weekday(slot)

\* date.setDate(date.getDate() + by)
ShiftDate(d, by) == IF d.nan THEN InvalidDate ELSE setDate(d, getDate(d) + by)

CallUnchanged == UNCHANGED <<tz, focus, SLOT_OBJECTS, heap, term>>

\* let date = new Date((half ? this.<whenHalf> : this.<otherwise>).getTime())
Enter(name, slot, half, whenHalf, otherwise) ==
    /\ pc = "idle"
    /\ pc' = name
    /\ slotArg' = slot
    /\ halfArg' = half
    /\ iters' = 0
    /\ date' = "local"
    /\ dates' = [dates EXCEPT
                   !["local"] = CopyDate(dates[IF half THEN whenHalf ELSE otherwise])]
    /\ ret' = [op |-> "none"]
    /\ CallUnchanged

\* one iteration of while (date.getDay() !== slot.weekday) date.setDate(date.getDate() + by)
Search(name, by) ==
    /\ pc = name
    /\ WeekdayDiffers(dates[date], slotArg)
    /\ iters < MaxSearch \/ dates[date].nan
    /\ dates' = [dates EXCEPT ![date] = ShiftDate(@, by)]
    /\ iters' = IF iters < MaxSearch THEN iters + 1 ELSE iters
    /\ UNCHANGED <<pc, date, slotArg, halfArg, ret>>
    /\ CallUnchanged

\* the loop has ended: the statements after it, and return slot.onDate(date)
Leave(name, extra) ==
    /\ pc = name
    /\ ~WeekdayDiffers(dates[date], slotArg)
    /\ \E shifted \in {ShiftDate(dates[date], extra)} :
          /\ ret' = [op |-> name, slot |-> slotArg, half |-> halfArg,
                     steps |-> iters, value |-> onDate(slotArg, shifted)]
          /\ dates' = [dates EXCEPT ![date] = shifted, !["local"] = InvalidDate]
    /\ pc' = "idle"
    /\ iters' = 0
    /\ date' = "local"
    /\ UNCHANGED <<slotArg, halfArg>>
    /\ CallUnchanged

\* let date = half ? this.<whenHalf> : this.<otherwise>: no copy is made
EnterAliased(name, slot, half, whenHalf, otherwise) ==
    /\ pc = "idle"
    /\ pc' = name
    /\ slotArg' = slot
    /\ halfArg' = half
    /\ iters' = 0
    /\ date' = (IF half THEN whenHalf ELSE otherwise)
    /\ ret' = [op |-> "none"]
    /\ UNCHANGED dates
    /\ CallUnchanged

OutOfRangeSlots ==
    {-SlotsPerDay - 1, -SlotsPerDay, NumSlots, NumSlots + SlotsPerDay}

\* one slot of each weekday, and the slots out of range
SearchSlots ==
    {SlotsPerDay * k + k : k \in 0..(Len(WEEKDAY_STRINGS) - 1)} \cup OutOfRangeSlots

\* slot numbers of the Slot passed to a Term method
TermSlots == (0..(NumSlots - 1)) \cup OutOfRangeSlots

\* startDateFor searching on the Term's own Date
startDateForAliased ==
    \E slot \in focus.slots, secondHalf \in BOOLEAN :
        EnterAliased("startDateFor", slot, secondHalf, "h2Start", "start")

startDateFor ==
    \E slot \in focus.slots, secondHalf \in BOOLEAN :
        Enter("startDateFor", slot, secondHalf, "h2Start", "start")

startDateForLoop == Search("startDateFor", 1)

startDateForReturn == Leave("startDateFor", 0)

endDateFor ==
    \E slot \in focus.slots, firstHalf \in BOOLEAN :
        Enter("endDateFor", slot, firstHalf, "h1End", "end")

endDateForLoop == Search("endDateFor", -1)

\* endDateFor without the extra day
endDateForReturnSameDay == Leave("endDateFor", 0)

\* plus an extra day, for inclusivity issues
endDateForReturn == Leave("endDateFor", 1)

\* the sentinel exDatesFor pushes: new Date("2000-01-01")
ExtraExDate == ParseDateOnly(<<2000, 1, 1>>)

\* this.holidays.filter((date) => date.getDay() === slot.weekday)
HolidaysOn(slot) ==
    LET OnWeekday(d) == ~WeekdayDiffers(d, slot)
    IN  SelectSeq(term.holidays, OnWeekday)

\* exDatesFor pushing the sentinel only when no holiday matches
ExDatesIfEmpty(slot) ==
    LET res == IF HolidaysOn(slot) = << >> THEN << ExtraExDate >> ELSE HolidaysOn(slot)
    IN  [k \in 1..Len(res) |-> onDate(slot, res[k])]

\* res.push(new Date("2000-01-01")); return res.map((date) => slot.onDate(date))
ExDates(slot) ==
    LET res == Append(HolidaysOn(slot), ExtraExDate)
    IN  [k \in 1..Len(res) |-> onDate(slot, res[k])]

exDatesFor ==
    \E slot \in focus.slots :
        /\ pc = "idle"
        /\ ret' = [op |-> "exDatesFor", slot |-> slot, value |-> ExDates(slot)]
        /\ TermUnchanged

\* slot.weekday === 1 && this.mondaySchedule ? slot.onDate(this.mondaySchedule) : undefined
RDate(slot) ==
    IF weekday(slot) = 1 /\ term.mondaySchedule # <<>>
    THEN << onDate(slot, term.mondaySchedule[1]) >>
    ELSE << >>

rDateFor ==
    \E slot \in focus.slots :
        /\ pc = "idle"
        /\ ret' = [op |-> "rDateFor", slot |-> slot, value |-> RDate(slot)]
        /\ TermUnchanged

(***************************************************************************)
(* Inputs of the Term specifications.  A date string "YYYY-MM-DD" is the   *)
(* triple of its numbers; the empty string is the empty tuple.             *)
(***************************************************************************)
\* the Term of the documented scenario
ScenarioTerm ==
    [urlName |-> <<"f", "2", "2">>,
     startDate |-> <<2022, 9, 7>>, h1EndDate |-> <<2022, 10, 28>>,
     h2StartDate |-> <<2022, 10, 31>>, endDate |-> <<2022, 12, 14>>,
     mondayScheduleDate |-> << >>, holidayDates |-> << >>]

WithDates(s, h1, h2, e) ==
    [ScenarioTerm EXCEPT !.startDate = s, !.h1EndDate = h1,
                         !.h2StartDate = h2, !.endDate = e]

\* boundaries on every day of the week, across a month's end, a year's end
\* and a leap day, and a Term whose four date strings were omitted
DateConfigs ==
    { ScenarioTerm,
      WithDates(<<2022, 9, 3>>, <<2022, 10, 29>>, <<2022, 10, 30>>, <<2023, 1, 1>>),
      WithDates(<<2024, 2, 27>>, <<2024, 3, 2>>, <<2024, 2, 29>>, <<2024, 3, 4>>),
      WithDates(<<2022, 12, 30>>, <<2023, 1, 3>>, <<2022, 12, 29>>, <<2023, 1, 5>>),
      WithDates(<< >>, << >>, << >>, << >>) }

HolidayStrings == { <<2022, 10, 10>>, <<2022, 11, 11>>, <<2022, 11, 25>>, << >> }

HolidayLists ==
    UNION { [1..n -> HolidayStrings] : n \in 0..MaxHolidays }

MondayStrings == { << >>, << <<2023, 2, 21>> >> }

HolidayConfigs ==
    { [ScenarioTerm EXCEPT !.holidayDates = h, !.mondayScheduleDate = m] :
        h \in HolidayLists, m \in MondayStrings }

UrlNames ==
    { <<"f", "2", "2">>, <<"s", "2", "3">>, <<"i", "2", "4">>, <<"f", "9", "9">>,
      <<"x", "2", "2">>, <<"F", "2", "2">>, <<"2", "2", "f">>, <<"f">>, << >> }

NameConfigs == { [ScenarioTerm EXCEPT !.urlName = u] : u \in UrlNames }

(***************************************************************************)
(* Specifications.                                                         *)
(***************************************************************************)
NoFocus == [slots |-> {}, labels |-> {}, dates |-> {}]

\* a slot, the slots before and after it, and the same time a day either way
Neighbours(b) == {b - SlotsPerDay, b - 1, b, b + 1, b + SlotsPerDay}

CacheFocus(b) ==
    [slots |-> Neighbours(b),
     labels |-> {l \in DayLabels \X TimeLabels :
                    DayStringIndex(l[1], l[2]) \in Neighbours(b)},
     dates |-> {}]

StartFocus(d) == [slots |-> {StartDateIndex(d)}, labels |-> {}, dates |-> {d}]

NoCall ==
    /\ pc = "idle"
    /\ date = "local"
    /\ slotArg = 0
    /\ halfArg = FALSE
    /\ iters = 0
    /\ ret = [op |-> "none"]

InitSlots(f) ==
    /\ focus = f
    /\ SLOT_OBJECTS = << >>
    /\ heap = << >>
    /\ term = TermOf(ScenarioTerm)
    /\ dates = DatesOf(ScenarioTerm)
    /\ NoCall

TermFocus(b) == [slots |-> {b}, labels |-> {}, dates |-> {}]

InitTerm(cfg, f) ==
    /\ focus = f
    /\ SLOT_OBJECTS = << >>
    /\ heap = << >>
    /\ term = TermOf(cfg)
    /\ dates = DatesOf(cfg)
    /\ NoCall

\* the canonical-instance cache
InitCache == tz \in TZOffsets /\ \E b \in SlotNumbers : InitSlots(CacheFocus(b))

NextCache == fromSlotNumber \/ fromDayString \/ add

SpecCache == InitCache /\ [][NextCache]_vars

\* fromStartDate beside the cache
InitStart == tz \in TZOffsets /\ \E d \in StartDateInputs : InitSlots(StartFocus(d))

NextStart == fromStartDate \/ fromSlotNumber

SpecStart == InitStart /\ [][NextStart]_vars

\* startDateFor and endDateFor
InitDates ==
    /\ tz \in TZOffsets
    /\ \E cfg \in DateConfigs, b \in TermSlots : InitTerm(cfg, TermFocus(b))

NextDates ==
    \/ startDateFor \/ startDateForLoop \/ startDateForReturn
    \/ endDateFor \/ endDateForLoop \/ endDateForReturn

SpecDates == InitDates /\ [][NextDates]_vars

\* the steps of a call that has started
Running ==
    \/ startDateForLoop \/ startDateForReturn
    \/ endDateForLoop \/ endDateForReturn

\* the same calls on a slot of each weekday and on the slots out of range
InitSearch ==
    /\ tz \in TZOffsets
    /\ \E cfg \in DateConfigs, b \in SearchSlots : InitTerm(cfg, TermFocus(b))

\* a call that has started keeps running: nothing else runs beside it
FairDates == InitSearch /\ [][NextDates]_vars /\ WF_vars(Running)

\* exDatesFor and rDateFor
InitHolidays ==
    /\ tz \in TZOffsets
    /\ \E cfg \in HolidayConfigs, b \in TermSlots : InitTerm(cfg, TermFocus(b))

NextHolidays == exDatesFor \/ rDateFor

SpecHolidays == InitHolidays /\ [][NextHolidays]_vars

\* the naming getters
InitNames == tz \in TZOffsets /\ \E cfg \in NameConfigs : InitTerm(cfg, NoFocus)

NextNames ==
    \/ get_fullRealYear \/ get_fullSchoolYear \/ get_semesterCatalog
    \/ get_semesterFull \/ get_semesterFullCaps \/ get_catalogName
    \/ get_niceName \/ get_urlName \/ get_toString

SpecNames == InitNames /\ [][NextNames]_vars

(***************************************************************************)
(* Properties.                                                             *)
(***************************************************************************)
ValidSlots == 0..(NumSlots - 1)

CacheOps == {"fromSlotNumber", "fromDayString", "add"}

\* the slot number a cache call asked for
Requested(r) ==
    CASE r.op = "fromSlotNumber" -> r.slot
      [] r.op = "fromDayString"  ->
            SlotsPerDay * indexOf(WEEKDAY_STRINGS, r.day)
                + indexOf(TIMESLOT_STRINGS, r.time)
      [] r.op = "add"            -> heap[r.this] + r.slots

C1_CacheInv ==
    /\ \A i \in DOMAIN SLOT_OBJECTS :
          /\ SLOT_OBJECTS[i] \in 1..Len(heap)
          /\ heap[SLOT_OBJECTS[i]] = i
    /\ \A a, b \in 1..Len(heap) : heap[a] = heap[b] => a = b
    /\ ret.op \in CacheOps =>
          LET i == Requested(ret)
          IN  /\ i \in DOMAIN SLOT_OBJECTS
              /\ ret.obj = SLOT_OBJECTS[i]
              /\ i \in ValidSlots =>
                    /\ weekday(heap[ret.obj]) \in 1..5
                    /\ SlotsPerDay * (weekday(heap[ret.obj]) - 1) <= i
                    /\ i < SlotsPerDay * weekday(heap[ret.obj])

C1_CacheStable ==
    /\ \A i \in DOMAIN SLOT_OBJECTS :
          i \in DOMAIN SLOT_OBJECTS' /\ SLOT_OBJECTS'[i] = SLOT_OBJECTS[i]
    /\ \A a \in 1..Len(heap) : a \in 1..Len(heap') /\ heap'[a] = heap[a]

\* C1: after any sequence of fromSlotNumber, fromDayString and add calls the
\* cache holds one Slot per index, the Slot under index i has slot number i
\* and no other Slot has it, an entry is never replaced or removed, every
\* call returns the cached instance of the index it asked for, and for i in
\* [0,149] that instance's weekday is floor(i/30)+1, a value in 1..5.
C1_CanonicalCache == []C1_CacheInv /\ [][C1_CacheStable]_vars

\* a second fromSlotNumber(i), i in [0,149], returned the instance made first
C1_Witness ==
    /\ ret.op = "fromSlotNumber"
    /\ ret.slot \in ValidSlots
    /\ Len(heap) = 2
    /\ ret.obj = 1

\* C5: for labels d of WEEKDAY_STRINGS and t of TIMESLOT_STRINGS the slot
\* fromDayString(d, t) has dayString d and timeString t and an index in
\* [0,149], and two different label pairs never give the same index.
C5_LabelRoundTrip ==
    LET OfTables(l) ==
            /\ \E k \in 1..Len(WEEKDAY_STRINGS) : WEEKDAY_STRINGS[k] = l[1]
            /\ \E k \in 1..Len(TIMESLOT_STRINGS) : TIMESLOT_STRINGS[k] = l[2]
        Known == {l \in focus.labels : OfTables(l)}
        Index == [l \in Known |-> DayStringIndex(l[1], l[2])]
    IN  /\ ret.op = "fromDayString" /\ OfTables(<<ret.day, ret.time>>) =>
              /\ dayString(heap[ret.obj]) = ret.day
              /\ timeString(heap[ret.obj]) = ret.time
              /\ heap[ret.obj] \in ValidSlots
        /\ \A l1, l2 \in Known : Index[l1] = Index[l2] => l1 = l2

\* fromDayString("Fri", "10:00 PM") returned slot 148
C5_Witness ==
    /\ ret.op = "fromDayString"
    /\ ret.day = "Fri"
    /\ ret.time = "10:00 PM"
    /\ heap[ret.obj] = 148

\* the label of a time of day on the 12-hour clock
ClockLabel(h, mi) ==
    ToString(IF h % 12 = 0 THEN 12 ELSE h % 12) \o ":"
        \o (IF mi < 10 THEN "0" ELSE "") \o ToString(mi)
        \o (IF h < 12 THEN " AM" ELSE " PM")

\* C10: TIMESLOT_STRINGS has 30 entries and WEEKDAY_STRINGS 5, so that for
\* every slot index i in [0,149] dayString is weekday label floor(i/30) and
\* timeString is a defined label, entry i mod 30, naming the time of day
\* that onDate gives the slot.
C10_LabelTables ==
    /\ Len(TIMESLOT_STRINGS) = 30
    /\ Len(WEEKDAY_STRINGS) = 5
    /\ \A a \in 1..Len(heap) :
          heap[a] \in ValidSlots =>
              /\ dayString(heap[a]) = WEEKDAY_STRINGS[(heap[a] \div 30) + 1]
              /\ timeString(heap[a]) # Undefined
              /\ timeString(heap[a])
                    = ClockLabel((heap[a] % 30) \div 2 + 8, (heap[a] % 2) * 30)

\* Monday to Friday, 8:00 to 21:59
InModeledRange(d) == getDay(d) \in 1..5 /\ getHours(d) \in 8..21

\* 30*(weekday-1) + 2*(hour-8) + floor(minute/30), with Monday = 1
WindowIndex(d) ==
    30 * (getDay(d) - 1) + 2 * (getHours(d) - 8)
        + (IF getMinutes(d) < 30 THEN 0 ELSE 1)

\* C6: for a date of Monday to Friday, 8:00 to 21:59, fromStartDate returns
\* the canonical slot of index 30*(weekday-1) + 2*(hour-8) + floor(minute/30):
\* the one instance with that index, the same that fromSlotNumber returns,
\* in whatever order the two are called.
C6_StartDateCanonical ==
    /\ ret.op = "fromStartDate" /\ InModeledRange(ret.date) =>
          /\ heap[ret.obj] = WindowIndex(ret.date)
          /\ \A a \in 1..Len(heap) :
                heap[a] = WindowIndex(ret.date) => a = ret.obj
    /\ ret.op = "fromSlotNumber" =>
          \A d \in focus.dates :
              InModeledRange(d) /\ WindowIndex(d) = ret.slot =>
                  \A a \in 1..Len(heap) : heap[a] = ret.slot => a = ret.obj

\* C9 as written: a date outside Monday to Friday, 8:00 to 21:59, never gets
\* the index of a valid slot.
C9_OutOfRangeIndex ==
    ret.op = "fromStartDate" /\ ~InModeledRange(ret.date) =>
        heap[ret.obj] \notin ValidSlots

\* C9 as amended: a date outside Monday to Friday, 8:00 to 21:59, gets an
\* index outside [0,149] exactly when it is a Sunday before 23:00, a Monday
\* before 8:00, a Friday from 23:00 or a Saturday from 8:00.  Every other
\* such date gets the index of a valid slot: of the same weekday (time-of-day
\* slot 28 or 29) from 22:00 to 22:59, of the next weekday from 23:00, of
\* the previous weekday before 8:00.
C9_OutOfRangeAliases ==
    ret.op = "fromStartDate" /\ ~InModeledRange(ret.date) =>
        LET d == getDay(ret.date)
            h == getHours(ret.date)
            i == heap[ret.obj]
        IN  /\ i \notin ValidSlots <=>
                  \/ d = 0 /\ h <= 22
                  \/ d = 1 /\ h < 8
                  \/ d = 5 /\ h >= 23
                  \/ d = 6 /\ h >= 8
            /\ i \in ValidSlots =>
                  /\ h = 22 => i \div 30 + 1 = d /\ i % 30 \in {28, 29}
                  /\ h >= 23 => i \div 30 + 1 = d + 1
                  /\ h < 8 => i \div 30 + 1 = d - 1

\* fromStartDate of a Tuesday, 7:30, returned slot 29 (Monday, 22:30)
C9_Witness ==
    /\ ret.op = "fromStartDate"
    /\ getDay(ret.date) = 2
    /\ getHours(ret.date) = 7
    /\ getMinutes(ret.date) = 30
    /\ heap[ret.obj] = 29

\* the day of the week of a day number, 0 = Sunday
DayOfWeek(day) == (day + 4) % 7

\* the local minute of the day a slot starts at
SlotMinuteOfDay(slot) == 60 * ((slot % 30) \div 2 + 8) + 30 * (slot % 2)

\* r is the slot's time of day on local day number `day`
IsSlotOnDay(r, slot, day) ==
    ~r.nan /\ LocalTime(r) = day * MinutesPerDay + SlotMinuteOfDay(slot)

\* C2: for a valid boundary E (end, or h1End when firstHalf) and a slot of
\* [0,149], endDateFor returns the slot's time of day on the day after D,
\* the latest day on or before E that has the slot's weekday; D is at most
\* 6 days before E, so the result is no later than the day after E.
C2_EndDateFor ==
    ret.op = "endDateFor" /\ ret.slot \in ValidSlots
            /\ ~dates[IF ret.half THEN "h1End" ELSE "end"].nan =>
        LET E == LocalDay(dates[IF ret.half THEN "h1End" ELSE "end"])
            D == CHOOSE day \in (E - 6)..E : DayOfWeek(day) = ret.slot \div 30 + 1
        IN  /\ \A day \in (D + 1)..E : DayOfWeek(day) # ret.slot \div 30 + 1
            /\ IsSlotOnDay(ret.value, ret.slot, D + 1)
            /\ D + 1 <= E + 1
            /\ E - D <= 6

\* endDateFor returned after stepping back six days, over a month's end
C2_Witness ==
    /\ ret.op = "endDateFor"
    /\ ret.slot \in ValidSlots
    /\ ret.steps = 6
    /\ ~ret.value.nan
    /\ getMonth(ret.value) # getMonth(dates[IF ret.half THEN "h1End" ELSE "end"])

C3_StartDay ==
    ret.op = "startDateFor" /\ ret.slot \in ValidSlots
            /\ ~dates[IF ret.half THEN "h2Start" ELSE "start"].nan =>
        LET S == LocalDay(dates[IF ret.half THEN "h2Start" ELSE "start"])
            R == CHOOSE day \in S..(S + 6) : DayOfWeek(day) = ret.slot \div 30 + 1
        IN  /\ \A day \in S..(R - 1) : DayOfWeek(day) # ret.slot \div 30 + 1
            /\ IsSlotOnDay(ret.value, ret.slot, R)
            /\ DayOfWeek(S) = ret.slot \div 30 + 1 => R = S
            /\ R >= S
            /\ R - S <= 6

C3_TermDatesKept == \A f \in TermDateFields : dates'[f] = dates[f]

\* C3: for a valid boundary S (start, or h2Start when secondHalf) and a slot
\* of [0,149], startDateFor returns the slot's time of day on the first day
\* on or after S that has the slot's weekday: S itself when S has it, never
\* before S nor more than 6 days after it.  The Term's own Dates are left
\* as they were.
C3_StartDateFor == []C3_StartDay /\ [][C3_TermDatesKept]_vars

\* startDateFor returned after stepping forward six days, over a month's end
C3_Witness ==
    /\ ret.op = "startDateFor"
    /\ ret.slot \in ValidSlots
    /\ ret.steps = 6
    /\ ~ret.value.nan
    /\ getMonth(ret.value) # getMonth(dates[IF ret.half THEN "h2Start" ELSE "start"])

\* C7: startDateFor and endDateFor always return, also for a Term whose
\* boundary is an invalid date and for a slot outside [0,149].
C7_SearchReturns == [](pc # "idle" => <>(pc = "idle"))

\* the positions of the holidays that fall on the slot's weekday
MatchingHolidays(slot) ==
    {k \in 1..Len(term.holidays) :
        /\ ~term.holidays[k].nan
        /\ DayOfWeek(LocalDay(term.holidays[k])) = slot \div 30 + 1}

\* the j-th of them, in the order of the list
NthMatching(slot, j) ==
    CHOOSE k \in MatchingHolidays(slot) :
        Cardinality({m \in MatchingHolidays(slot) : m < k}) = j - 1

\* the slot's time of day as onDate applies it, in minutes after local midnight
SlotOffset(slot) == 60 * (JSRem(slot, 30) \div 2 + 8) + 30 * JSRem(slot, 2)

\* the first entries of v are the matching holidays, in order, at the slot's time
HolidaysProjected(v, slot) ==
    \A j \in 1..Cardinality(MatchingHolidays(slot)) :
        /\ ~v[j].nan
        /\ LocalTime(v[j])
              = LocalDay(term.holidays[NthMatching(slot, j)]) * MinutesPerDay
                    + SlotOffset(slot)

\* C4 as written: exDatesFor returns the holidays on the slot's weekday, each
\* at the slot's time of day and in list order, and the sentinel, the first
\* day of 2000 at the slot's time, only if no holiday matches; the result is
\* never empty.
C4_SentinelIfEmpty ==
    ret.op = "exDatesFor" =>
        LET n == Cardinality(MatchingHolidays(ret.slot))
        IN  /\ Len(ret.value) = (IF n = 0 THEN 1 ELSE n)
            /\ HolidaysProjected(ret.value, ret.slot)
            /\ n = 0 =>
                  LocalTime(ret.value[1])
                      = MakeDay(2000, 0, 1) * MinutesPerDay + SlotOffset(ret.slot)

C4_ExDates ==
    ret.op = "exDatesFor" =>
        LET n == Cardinality(MatchingHolidays(ret.slot))
        IN  /\ Len(ret.value) = n + 1
            /\ HolidaysProjected(ret.value, ret.slot)
            /\ ~ret.value[n + 1].nan
            /\ LocalTime(ret.value[n + 1])
                  = (IF tz >= 0 THEN MakeDay(2000, 0, 1) ELSE MakeDay(1999, 11, 31))
                        * MinutesPerDay + SlotOffset(ret.slot)

C4_HolidaysKept == term'.holidays = term.holidays

\* C4 as amended: exDatesFor never returns an empty sequence: it returns the
\* holidays on the slot's weekday, each at the slot's time of day and in list
\* order, and then always, whether or not a holiday matches, the sentinel
\* as the last entry: the local calendar day of 2000-01-01T00:00 UTC (the
\* first day of 2000 at or east of UTC, the last day of 1999 west of it) at
\* the slot's time of day.  The Term's holidays list is not modified.
C4_ExDatesFor == []C4_ExDates /\ [][C4_HolidaysKept]_vars

\* exDatesFor returned two holidays and the sentinel, west of UTC
C4_Witness ==
    /\ ret.op = "exDatesFor"
    /\ ret.slot \in ValidSlots
    /\ Len(ret.value) = 3
    /\ tz < 0
    /\ getFullYear(ret.value[3]) = 1999

SemesterGetters ==
    {"semesterCatalog", "semesterFull", "semesterFullCaps", "catalogName", "niceName"}

\* C8: for a Term whose urlName does not start with f, s or i, the getters
\* semesterCatalog, semesterFull, semesterFullCaps, catalogName and niceName
\* raise no error: each returns a value.
C8_GettersReturn ==
    ret.op \in SemesterGetters /\ term.semester \notin {"f", "s", "i"} =>
        ~ret.result.threw

====
